---- MODULE Spec2Model ----
(***************************************************************************)
(* Dojo member portal (dojo_streamlit_portal/app.py).                      *)
(*                                                                         *)
(* A Streamlit script: every interaction of a browser session re-runs the  *)
(* script top to bottom.  Durable data lives in two spreadsheets, Members  *)
(* (read only) and Requests (read, append).  The model keeps, per session, *)
(* st.session_state.member, and globally the two sheets and the messages   *)
(* the most recent script run put on its page.                             *)
(*                                                                         *)
(* A spreadsheet cell, a text input and every other string is a sequence   *)
(* of tokens (a token is a character or an indivisible run of characters), *)
(* so that strip(), lower(), re.sub, slicing, strftime and to_datetime are *)
(* modelled by what they do to the text.                                   *)
(***************************************************************************)
EXTENDS Integers, Sequences, FiniteSets, TLC

VARIABLES
    members,    \* the Members sheet: [cols: set of column names, rows: sequence of rows]
    reqHeader,  \* row 1 of the Requests sheet: sequence of column names
    reqRows,    \* the data rows of the Requests sheet, each a sequence of cells
    member,     \* st.session_state.member of every session (None when logged out)
    pc,         \* where the script run of a session stands ("idle": no run in progress)
    pend,       \* arguments of the append_leave_request call a run is about to make
    last,       \* the most recent script run: session, widget values, messages shown
    appends     \* number of rows appended so far (caps the Requests sheet)

vars == <<members, reqHeader, reqRows, member, pc, pend, last, appends>>

----------------------------------------------------------------------------
(* Bounds of the model *)

\* start dates offered by the date picker: day 0 .. MaxStartSel (day 0 = Mon 01-01-2024)
MaxStartSel == 7
\* largest week count entered in the number input
MaxWeeks == 2
\* rows the composer may append in one behaviour
MaxAppends == 1
\* pct is called with whole numbers from -MaxPctArg to MaxPctArg
MaxPctArg == 12

\* Browser sessions.  Sessions share nothing but the two sheets, so the runs of
\* one session are explored with one session.
Sessions == {"s1"}

----------------------------------------------------------------------------
(* Text *)

Blank == <<>>

None == [none |-> TRUE]

\* str.strip(): leading and trailing whitespace removed
RECURSIVE LStrip(_)
LStrip(s) == IF s # <<>> /\ Head(s) = " " THEN LStrip(Tail(s)) ELSE s

RECURSIVE RStrip(_)
RStrip(s) == IF s # <<>> /\ s[Len(s)] = " " THEN RStrip(SubSeq(s, 1, Len(s) - 1)) ELSE s

Strip(s) == RStrip(LStrip(s))

\* str.lower() of one token
LowerTok(t) ==
    CASE t = "A@X" -> "a@x"
      [] t = "A@x" -> "a@x"
      [] t = "C@x" -> "c@x"
      [] t = "Leave request" -> "leave request"
      [] t = "LEAVE REQUEST" -> "leave request"
      [] t = "Contact update" -> "contact update"
      [] t = "Update request" -> "update request"
      [] t = "New" -> "new"
      [] t = "Approved" -> "approved"
      [] t = "In Review" -> "in review"
      [] t = "M1" -> "m1"
      [] t = "M2" -> "m2"
      [] t = "M3" -> "m3"
      [] OTHER -> t

Lower(s) == [i \in 1..Len(s) |-> LowerTok(s[i])]

\* str(a).strip().lower()
Norm(s) == Lower(Strip(s))

RECURSIVE Join(_, _)
\* sep.join(parts)
Join(parts, sep) ==
    IF parts = <<>> THEN <<>>
    ELSE IF Len(parts) = 1 THEN parts[1]
    ELSE parts[1] \o sep \o Join(Tail(parts), sep)

RECURSIVE SelectSeqOf(_, _)
\* the rows of s whose index is in the set keep (a boolean-mask selection df[mask])
SelectSeqOf(s, keep) ==
    IF s = <<>> THEN <<>>
    ELSE LET n == Len(s)
             front == SelectSeqOf(SubSeq(s, 1, n - 1), keep)
         IN  IF n \in keep THEN Append(front, s[n]) ELSE front

DigitChars == <<"0", "1", "2", "3", "4", "5", "6", "7", "8", "9">>

IsDigit(c) == \E i \in 1..10 : DigitChars[i] = c

DigitVal(c) == (CHOOSE i \in 1..10 : DigitChars[i] = c) - 1

\* "%02d" % n, for 0 <= n <= 99
TwoDigits(n) == <<DigitChars[(n \div 10) + 1], DigitChars[(n % 10) + 1]>>

\* str(int(n)), for 0 <= n <= 99
IntStr(n) == IF n < 10 THEN <<DigitChars[n + 1]>> ELSE TwoDigits(n)

----------------------------------------------------------------------------
(* Dates: a datetime.date is its number of days after Monday 01-01-2024 *)

\* month lengths of the year the model's calendar covers (2024)
MonthLens == <<31, 29, 31, 30, 31, 30, 31, 31, 30, 31, 30, 31>>

RECURSIVE DaysBefore(_)
\* days of 2024 before the first of month m
DaysBefore(m) == IF m = 1 THEN 0 ELSE DaysBefore(m - 1) + MonthLens[m - 1]

MonthOf(d) == CHOOSE m \in 1..12 : DaysBefore(m) <= d /\ d < DaysBefore(m) + MonthLens[m]

\* date.weekday(): 0 is Monday
Weekday(d) == d % 7

\* date.strftime("%d-%m-%Y")
DateStr(d) ==
    LET m == MonthOf(d)
    IN  TwoDigits(d - DaysBefore(m) + 1) \o <<"-">> \o TwoDigits(m) \o <<"-", "2", "0", "2", "4">>

NaT == -1

\* pd.to_datetime(cell, errors="coerce", dayfirst=True) of one cell, as a day number;
\* NaT for a cell that is no DD-MM-2024 date
ParseDayFirst(c) ==
    IF /\ Len(c) = 10
       /\ IsDigit(c[1]) /\ IsDigit(c[2]) /\ c[3] = "-"
       /\ IsDigit(c[4]) /\ IsDigit(c[5]) /\ c[6] = "-"
       /\ SubSeq(c, 7, 10) = <<"2", "0", "2", "4">>
    THEN LET dd == 10 * DigitVal(c[1]) + DigitVal(c[2])
             mm == 10 * DigitVal(c[4]) + DigitVal(c[5])
         IN  IF mm \in 1..12 /\ dd >= 1 /\ dd <= MonthLens[mm]
             THEN DaysBefore(mm) + dd - 1
             ELSE NaT
    ELSE NaT

\* the Monday that begins the week of d
monday_of_week(d) == d - Weekday(d)

\* next_monday(d): d when d is a Monday, otherwise the Monday after d
next_monday(d) == IF Weekday(d) = 0 THEN d ELSE d + (7 - Weekday(d))

\* snapped_start + timedelta(days=7 * int(weeks) - 1)
EndDate(start, weeks) == start + (7 * weeks - 1)

----------------------------------------------------------------------------
(* The Members sheet and login *)

\* configuration: st.secrets["security"]["pin_salt"]
Salt == <<"salt:">>

\* pin_hash(raw_pin): hex digest of SHA-256 over salt + pin.  The digest is
\* modelled as the tagged preimage: deterministic, and distinct for distinct
\* (salt, pin), as SHA-256 is in practice.
pin_hash(raw_pin) == <<"sha256(">> \o Salt \o raw_pin \o <<")">>

RequiredCols ==
    {"MemberID", "MemberName", "Email", "LeaveYear", "AnnualAllowance",
     "LeaveTaken", "LeaveBalance", "LastUpdated"}

AllMemberCols == RequiredCols \cup {"PIN", "PIN_Hash"}

\* A row of the Members sheet as the staff keep it.  Ann and Bea are two
\* students under one guardian account (same email up to case and blanks, same
\* PIN).  Every PIN was hashed with utils/hash_pins.py; Cy's plain PIN was
\* cleared afterwards.
MemberRow(id, name, email, pin, hash, taken) ==
    [MemberID |-> id, MemberName |-> name, Email |-> email, PIN |-> pin,
     PIN_Hash |-> hash, LeaveYear |-> <<"2024">>, AnnualAllowance |-> <<"8">>,
     LeaveTaken |-> taken, LeaveBalance |-> <<"6">>, LastUpdated |-> <<"01-01-2024">>]

MemberRows ==
    << MemberRow(<<"M1">>, <<"Ann">>, <<"a@x">>, <<"1234">>, pin_hash(<<"1234">>), <<"2">>),
       MemberRow(<<"M2">>, <<"Bea">>, <<"A@x", " ">>, <<"1234">>, pin_hash(<<"1234">>), <<"2">>),
       MemberRow(<<"M3">>, <<"Cy">>, <<"c@x">>, Blank, pin_hash(<<"9999">>), <<"2">>) >>

\* the column sets the Members sheet may have
MemberColChoices ==
    { AllMemberCols, AllMemberCols \ {"LastUpdated"}, AllMemberCols \ {"PIN"} }

\* load_members_df(): the sheet as a table with only the columns it has
MembersTable(cols) ==
    [cols |-> cols,
     rows |-> [i \in 1..Len(MemberRows) |-> [c \in cols |-> MemberRows[i][c]]]]

\* dict.get(key, ""): the value, or "" when the key is absent
Get(d, key) == IF key \in DOMAIN d THEN d[key] ELSE Blank

\* the email and PIN strings typed into the login form
LoginEmails == { <<"a@x">>, <<" ", "A@X">>, <<"c@x">>, <<"z@x">> }
LoginPins == { <<"1234">>, <<"9999">>, Blank }

\* a lookup that compares the email only
LoginMatchesAnyPin(df, email, pin) ==
    SelectSeqOf(df.rows,
        { i \in 1..Len(df.rows) : Norm(df.rows[i]["Email"]) = Norm(email) })

\* lines 199-202: the rows whose stripped, lower-cased Email equals the stripped,
\* lower-cased input and whose PIN cell, as a string, equals the input PIN
LoginMatches(df, email, pin) ==
    SelectSeqOf(df.rows,
        { i \in 1..Len(df.rows) :
            /\ Norm(df.rows[i]["Email"]) = Norm(email)
            /\ df.rows[i]["PIN"] = pin })

\* matches[matches["MemberName"] == chosen].iloc[0]
FirstNamed(matches, chosen) ==
    matches[CHOOSE i \in 1..Len(matches) :
                /\ matches[i]["MemberName"] = chosen
                /\ \A j \in 1..(i - 1) : matches[j]["MemberName"] # chosen]

NamesOf(matches) == { matches[i]["MemberName"] : i \in 1..Len(matches) }

----------------------------------------------------------------------------
(* The Requests sheet *)

BaseCols ==
    <<"Timestamp", "MemberEmail", "MemberID", "RequestType", "Message",
      "Status", "HandledBy", "AdminNotes">>

\* append_leave_request, line 87
LeaveCols == <<"StudentName", "FromDate", "ToDate", "Weeks", "LeaveReason", "LeaveDescription">>

\* append_contact_update, line 157
structured_cols ==
    <<"UpdateType", "UpdateName", "UpdatePhone", "UpdateEmail",
      "Addr1", "Addr2", "Suburb", "PostCode">>

\* the header rows the Requests sheet may have: the base columns followed by the
\* structured ones; the layout append_contact_update documents as "your sheet"
\* (lines 132-154); the base columns alone; the base columns and some of the
\* contact columns; a sheet that has no MemberID column
HeaderChoices ==
    { BaseCols \o LeaveCols \o structured_cols,
      <<"Timestamp", "MemberEmail", "MemberID", "RequestType", "Message",
        "FromDate", "ToDate", "LeaveReason", "LeaveDescription",
        "Status", "HandledBy", "AdminNotes">> \o structured_cols,
      BaseCols,
      BaseCols \o <<"UpdateType", "UpdateName", "UpdateEmail">>,
      <<"Timestamp", "MemberEmail", "RequestType", "Message", "Status",
        "HandledBy", "AdminNotes", "FromDate", "ToDate">> }

ColSet(header) == { header[i] : i \in 1..Len(header) }

\* [row_map.get(h, "") for h in headers]
RowByName(header, row_map) == [i \in 1..Len(header) |-> Get(row_map, header[i])]

\* rows found in the sheet before the portal runs, written by earlier use and
\* edited by staff: Ann's leave 08-01-2024 to 14-01-2024, Bea's leave 01-01-2024
\* to 07-01-2024 (same guardian email), a non-leave request of Cy's on which
\* staff noted the dates 01-01-2024 to 07-01-2024, and a contact update of Ann's
\* that staff marked "In Review"
SeedMaps ==
    << [Timestamp |-> <<"T0">>, MemberEmail |-> <<"a@x">>, MemberID |-> <<"M1">>,
        RequestType |-> <<"Leave request">>, Status |-> <<"New">>,
        StudentName |-> <<"Ann">>, FromDate |-> DateStr(7), ToDate |-> DateStr(13),
        Weeks |-> <<"1">>, LeaveReason |-> <<"Personal">>, LeaveDescription |-> <<"trip">>],
       [Timestamp |-> <<"T0">>, MemberEmail |-> <<"A@x", " ">>, MemberID |-> <<"M2">>,
        RequestType |-> <<"Leave request">>, Status |-> <<"Approved">>,
        StudentName |-> <<"Bea">>, FromDate |-> DateStr(0), ToDate |-> DateStr(6),
        Weeks |-> <<"1">>, LeaveReason |-> <<"Personal">>, LeaveDescription |-> <<"camp">>],
       [Timestamp |-> <<"T0">>, MemberEmail |-> <<"c@x">>, MemberID |-> <<"M3">>,
        RequestType |-> <<"Update request">>, Status |-> <<"New">>,
        Message |-> <<"class change">>, FromDate |-> DateStr(0), ToDate |-> DateStr(6)],
       [Timestamp |-> <<"T0">>, MemberEmail |-> <<"a@x">>, MemberID |-> <<"M1">>,
        RequestType |-> <<"Contact update">>, Status |-> <<"In Review", " ">>,
        UpdateType |-> <<"Email">>, UpdateName |-> <<"Bob">>, UpdateEmail |-> <<"n@x">>] >>

SeedRows(header, keep) ==
    SelectSeqOf([i \in 1..Len(SeedMaps) |-> RowByName(header, SeedMaps[i])], keep)

\* one record of ws.get_all_records(): the header's names mapped to the row's
\* cells by position ("" where the row is shorter than the header)
RecordOf(header, row) ==
    [c \in ColSet(header) |->
        LET i == CHOOSE k \in 1..Len(header) : header[k] = c
        IN  IF i <= Len(row) THEN row[i] ELSE Blank]

\* pd.DataFrame(ws.get_all_records()): no rows gives a frame without columns
Snapshot(header, rows) ==
    [cols |-> IF rows = <<>> THEN {} ELSE ColSet(header),
     rows |-> [i \in 1..Len(rows) |-> RecordOf(header, rows[i])]]

----------------------------------------------------------------------------
(* Request Composer *)

\* datetime.now(tz).strftime(...): the wall clock is not modelled, every run
\* reads the same instant
Now == <<"04-11-2026 10:00:00">>

\* Python values that carry a calendar day: a datetime.date or a pandas Timestamp
PyDate(d) == [type |-> "date", day |-> d]
PyTimestamp(d) == [type |-> "Timestamp", day |-> d]

\* pd.to_datetime(x)
to_datetime(x) == PyTimestamp(x.day)

\* x + pd.Timedelta(days=n).  pandas' Timedelta is a subclass of
\* datetime.timedelta, so for a datetime.date x the sum is computed by
\* datetime.date.__add__ and is again a plain datetime.date; a Timestamp stays
\* a Timestamp.
TimestampPlusTimedelta(x, n) == PyTimestamp(x.day + n)
PlusTimedelta(x, n) == [type |-> x.type, day |-> x.day + n]

\* whether x.date() exists: Timestamp and datetime have the method, datetime.date
\* has not (AttributeError)
HasDateMethod(x) == x.type = "Timestamp"

\* x.date()
DateOf(x) == PyDate(x.day)

\* lines 89-98
LeaveBase(m) ==
    << Now, Get(m, "Email"), Get(m, "MemberID"), <<"Leave request">>, Blank,
       <<"New">>, Blank, Blank >>

\* line 111-113: the f-string message of the fallback row
LeaveMessage(m, start_s, end_s, weeks, reason, description) ==
    LET msg == <<"Leave request | ">> \o Get(m, "MemberName") \o <<" | ">> \o start_s
               \o <<" -> ">> \o end_s \o <<" | ">> \o IntStr(weeks)
               \o <<" week(s) | Reason: ">> \o reason
    IN  IF Strip(description) # Blank
        THEN msg \o <<" | Desc: ">> \o Strip(description)
        ELSE msg

\* lines 86-114: the list handed to ws.append_row, by position
LeaveRow(header, m, start_s, end_s, weeks, reason, description) ==
    LET base == LeaveBase(m)
    IN  IF \A i \in 1..Len(LeaveCols) : LeaveCols[i] \in ColSet(header)
        THEN base \o << Get(m, "MemberName"), start_s, end_s, IntStr(weeks),
                        reason, Strip(description) >>
        ELSE SubSeq(base, 1, 4)
             \o << LeaveMessage(m, start_s, end_s, weeks, reason, description) >>
             \o SubSeq(base, 6, 8)

\* append_leave_request(member, start_monday, weeks, reason, description): what it
\* raises and the rows of the sheet after it.  gw: the gateway calls succeed.
append_leave_request(gw, header, rows, m, start_monday, weeks, reason, description) ==
    IF ~gw THEN [raised |-> "GatewayError", rows |-> rows]
    ELSE
      LET start == DateOf(to_datetime(PyDate(start_monday)))             \* line 79
          sum   == PlusTimedelta(start, 7 * weeks - 1)                   \* line 80
      IN  IF ~HasDateMethod(sum)
          THEN [raised |-> "AttributeError", rows |-> rows]              \* line 80: .date()
          ELSE LET end_date == DateOf(sum)
                   row == LeaveRow(header, m, DateStr(start.day), DateStr(end_date.day),
                                   weeks, reason, description)
               IN  [raised |-> "", rows |-> Append(rows, row)]

\* lines 132-165: the name -> value map of a contact update
ContactRowMap(header, m, update_type, update_name, phone, email, addr) ==
    LET parts0 == << <<"Type: ">> \o update_type, <<"Name: ">> \o update_name >>
        parts1 == IF phone # Blank THEN Append(parts0, <<"Phone: ">> \o phone) ELSE parts0
        parts2 == IF email # Blank THEN Append(parts1, <<"Email: ">> \o email) ELSE parts1
        given  == SelectSeq(addr, LAMBDA a : a # Blank)
        parts3 == IF given # <<>>
                  THEN Append(parts2, <<"Address: ">> \o Join(given, <<", ">>))
                  ELSE parts2
        folded == ~ \E i \in 1..Len(structured_cols) : structured_cols[i] \in ColSet(header)
    IN  [Timestamp |-> Now, MemberEmail |-> Get(m, "Email"), MemberID |-> Get(m, "MemberID"),
         RequestType |-> <<"Contact update">>,
         Message |-> IF folded THEN Join(parts3, <<" | ">>) ELSE Blank,
         FromDate |-> Blank, ToDate |-> Blank, LeaveReason |-> Blank,
         LeaveDescription |-> Blank, Status |-> <<"New">>, HandledBy |-> Blank,
         AdminNotes |-> Blank,
         UpdateType |-> update_type, UpdateName |-> update_name, UpdatePhone |-> phone,
         UpdateEmail |-> email, Addr1 |-> addr[1], Addr2 |-> addr[2],
         Suburb |-> addr[3], PostCode |-> addr[4]]

\* the values in the order lines 132-154 list them, whatever the header
ContactValuesPositional(header, row_map) ==
    RowByName(<<"Timestamp", "MemberEmail", "MemberID", "RequestType", "Message",
                "FromDate", "ToDate", "LeaveReason", "LeaveDescription",
                "Status", "HandledBy", "AdminNotes">> \o structured_cols, row_map)

\* lines 167-168: values in the order of the sheet's header
ContactValues(header, row_map) == RowByName(header, row_map)

\* a writer that puts the new row above the rows the sheet holds
insert_contact_update(gw, header, rows, m, update_type, update_name, phone, email, addr) ==
    IF ~gw THEN [raised |-> "GatewayError", rows |-> rows]
    ELSE [raised |-> "",
          rows |-> << RowByName(header,
                        ContactRowMap(header, m, update_type, update_name, phone, email, addr)) >>
                   \o rows]

\* append_contact_update(member, update_type, update_name, phone=, email=, addr1=, ...)
append_contact_update(gw, header, rows, m, update_type, update_name, phone, email, addr) ==
    IF ~gw THEN [raised |-> "GatewayError", rows |-> rows]
    ELSE [raised |-> "",
          rows |-> Append(rows,
                     ContactValues(header,
                        ContactRowMap(header, m, update_type, update_name, phone, email, addr)))]

\* re.sub(r"\D", "", raw)
Digits(raw) == SelectSeq(raw, IsDigit)

\* len(digits) == 10 and digits.startswith("0")
PhoneValid(digits) == Len(digits) = 10 /\ digits[1] = "0"

\* f"{digits[0:4]} {digits[4:7]} {digits[7:10]}"
FormatPhone(digits) ==
    SubSeq(digits, 1, 4) \o <<" ">> \o SubSeq(digits, 5, 7) \o <<" ">> \o SubSeq(digits, 8, 10)

----------------------------------------------------------------------------
(* Leave request view: overlap validation, lines 408-434 *)

\* conflict_mask of one row, lines 426-432
Conflicts(r, start_new, end_new) ==
    LET from == ParseDayFirst(r["FromDate"])
        to   == ParseDayFirst(r["ToDate"])
    IN  /\ from # NaT
        /\ to # NaT
        /\ from <= end_new
        /\ to >= start_new

\* lines 411-419: the rows of the snapshot the check looks at
MineOf(r_df, email, member_id) ==
    LET byEmail == SelectSeq(r_df.rows, LAMBDA r : Norm(r["MemberEmail"]) = Norm(email))
    IN  IF "MemberID" \in r_df.cols
        THEN LET byId == SelectSeq(byEmail, LAMBDA r : Norm(r["MemberID"]) = Norm(member_id))
             IN  IF byId # <<>> /\ "RequestType" \in r_df.cols
                 THEN SelectSeq(byId, LAMBDA r : Norm(r["RequestType"]) = <<"leave request">>)
                 ELSE byId
        ELSE byEmail

\* lines 408-434: [raised, conflict_rows]; overlap_found is conflict_rows # <<>>
OverlapCheck(r_df, email, member_id, start_new, end_new) ==
    IF r_df.rows = <<>>
    THEN [raised |-> "", conflict_rows |-> <<>>]
    ELSE IF "MemberEmail" \notin r_df.cols
    THEN [raised |-> "KeyError", conflict_rows |-> <<>>]
    ELSE LET mine == MineOf(r_df, email, member_id)
         IN  IF "FromDate" \in r_df.cols /\ "ToDate" \in r_df.cols
             THEN [raised |-> "",
                   conflict_rows |-> SelectSeq(mine, LAMBDA r : Conflicts(r, start_new, end_new))]
             ELSE [raised |-> "", conflict_rows |-> <<>>]

----------------------------------------------------------------------------
(* Script runs *)

\* widget values of the forms
Reasons == { Blank, <<"Personal">>, <<"Injury or Serious Illness">> }
Descriptions == { Blank, <<" ">>, <<"trip">> }
DetailTypes == { "Phone number", "Address", "Email" }
PersonNames == { Blank, <<"Bob">> }
PhoneInputs ==
    { <<"0", "4", "0", "0", "1", "2", "3", "4", "5", "6">>,
      <<"0", "4", "0", "0", " ", "1", "2", "3", " ", "4", "5", "6">>,
      <<"(", "0", "4", ")", "0", "0", "1", "2", "-", "3", "4", "5", "6">>,
      <<"0", "4", "0", "0", "1", "2", "3", "4", "5">>,
      <<"0", "4", "0", "0", "1", "2", "3", "4", "5", "6", "7">>,
      <<"1", "4", "0", "0", "1", "2", "3", "4", "5", "6">>,
      Blank }
NewEmails == { <<"n@x">> }
NoAddress == <<Blank, Blank, Blank, Blank>>
Addresses == { <<<<"1 High St">>, Blank, <<"Bondi">>, <<"2026">>>> }

\* the record of a script run: the session, what was asked, the widget values,
\* the messages (st.error, st.success) the run showed and, in the leave view,
\* the "Requested period" caption of line 389 (first and last day); in the
\* "My requests" view, the two radio choices and the rows of the sheet (by
\* their position in reqRows) that the table on the page shows
Run(s, op, msgs) ==
    [sess |-> s, op |-> op, msgs |-> msgs, email |-> Blank, pin |-> Blank,
     start |-> 0, weeks |-> 0, reason |-> Blank, desc |-> Blank,
     detail |-> "", name |-> Blank, value |-> Blank, addr |-> NoAddress, gw |-> TRUE,
     period |-> <<0, 0>>, cat |-> "", show |-> "", shown |-> {}]

NoPend == [start |-> 0, weeks |-> 0, reason |-> Blank, desc |-> Blank]

LoggedIn(s) == member[s] # None

\* lines 228-242: every logged-in run looks the account's students up again and
\* makes the one the picker names the active member
ActiveStudent(df, m, chosen) ==
    IF "PIN" \in df.cols /\ "Email" \in df.cols /\ "MemberName" \in df.cols
    THEN LET matches == LoginMatches(df, m["Email"], m["PIN"])
         IN  IF Len(matches) > 1 /\ chosen \in NamesOf(matches)
             THEN FirstNamed(matches, chosen)
             ELSE m
    ELSE m

\* lines 179-181: the Logout button
Logout(s) ==
    /\ pc[s] = "idle"
    /\ member' = [member EXCEPT ![s] = None]
    /\ last' = Run(s, "logout", {})
    /\ UNCHANGED <<members, reqHeader, reqRows, pc, pend, appends>>

\* lines 190-221: the login form is submitted with email and pin; chosen is the
\* value of the student picker when several rows match
Login(s, email, pin, chosen) ==
    /\ pc[s] = "idle"
    /\ ~LoggedIn(s)
    /\ LET df == members
           missing == RequiredCols \ df.cols
       IN  IF missing # {}
           THEN /\ last' = [Run(s, "login", {"missing_columns"}) EXCEPT !.email = email, !.pin = pin]
                /\ UNCHANGED member
           ELSE IF "PIN" \notin df.cols
           THEN \* df["PIN"] raises KeyError, caught at line 220
                /\ last' = [Run(s, "login", {"error_reading"}) EXCEPT !.email = email, !.pin = pin]
                /\ UNCHANGED member
           ELSE LET matches == LoginMatches(df, email, pin)
                IN  IF matches # <<>>
                    THEN /\ IF Len(matches) > 1
                            THEN /\ chosen \in NamesOf(matches)
                                 /\ member' = [member EXCEPT ![s] = FirstNamed(matches, chosen)]
                            ELSE /\ chosen = Blank
                                 /\ member' = [member EXCEPT ![s] = matches[1]]
                         /\ last' = [Run(s, "login", {"found"}) EXCEPT !.email = email, !.pin = pin]
                    ELSE /\ chosen = Blank
                         /\ last' = [Run(s, "login", {"no_match"}) EXCEPT !.email = email, !.pin = pin]
                         /\ UNCHANGED member
    /\ UNCHANGED <<members, reqHeader, reqRows, pc, pend, appends>>

\* lines 228-242: the student picker of the logged-in view is set to chosen
SelectStudent(s, chosen) ==
    /\ pc[s] = "idle"
    /\ LoggedIn(s)
    /\ chosen \in NamesOf(LoginMatches(members, member[s]["Email"], member[s]["PIN"]))
    /\ member' = [member EXCEPT ![s] = ActiveStudent(members, member[s], chosen)]
    /\ last' = [Run(s, "select", {}) EXCEPT !.name = chosen]
    /\ UNCHANGED <<members, reqHeader, reqRows, pc, pend, appends>>

\* lines 384-451 up to the call of append_leave_request: "Submit leave request" is
\* pressed with the form holding start_sel, weeks, reason and description.
\* gw: the gateway read succeeds.
SubmitLeave(s, start_sel, weeks, reason, description, gw) ==
    /\ pc[s] = "idle"
    /\ LoggedIn(s)
    /\ appends < MaxAppends
    /\ LET m == ActiveStudent(members, member[s], member[s]["MemberName"])
           snapped_start == next_monday(start_sel)
           end_date == EndDate(snapped_start, weeks)
           run(msgs) == [Run(s, "leave", msgs) EXCEPT !.start = start_sel, !.weeks = weeks,
                                   !.reason = reason, !.desc = description, !.gw = gw,
                                   !.period = <<snapped_start, end_date>>]
           chk == OverlapCheck(Snapshot(reqHeader, reqRows), Get(m, "Email"),
                               Get(m, "MemberID"), snapped_start, end_date)
           stay(msgs) == /\ last' = run(msgs)
                         /\ UNCHANGED <<pc, pend>>
       IN  /\ member' = [member EXCEPT ![s] = m]
           /\ IF weeks < 1 THEN stay({"need_weeks"})
              ELSE IF reason = Blank THEN stay({"need_reason"})
              ELSE IF description = Blank \/ Strip(description) = Blank
                   THEN stay({"need_description"})
              ELSE IF ~gw \/ chk.raised # "" THEN stay({"could_not_submit_leave"})
              ELSE IF chk.conflict_rows # <<>>
                   THEN IF "Status" \notin ColSet(reqHeader)
                        THEN \* show[[..., "Status"]] raises KeyError
                             stay({"overlap_error", "could_not_submit_leave"})
                        ELSE /\ last' = run({"overlap_error"})
                             /\ pc' = [pc EXCEPT ![s] = "append"]
                             /\ pend' = [pend EXCEPT ![s] =
                                            [start |-> snapped_start, weeks |-> weeks,
                                             reason |-> reason, desc |-> description]]
              ELSE \* no overlap: the run shows nothing and calls nothing
                   stay({})
    /\ UNCHANGED <<members, reqHeader, reqRows, appends>>

\* lines 445-452: the run that found an overlap goes on to call
\* append_leave_request(member, snapped_start, int(weeks), reason, description)
AppendLeave(s, gw) ==
    /\ pc[s] = "append"
    /\ LET a == pend[s]
           r == append_leave_request(gw, reqHeader, reqRows, member[s],
                                     a.start, a.weeks, a.reason, a.desc)
           run(msgs) == [Run(s, "leave_append", msgs) EXCEPT !.start = a.start,
                              !.weeks = a.weeks, !.reason = a.reason, !.desc = a.desc, !.gw = gw,
                              !.period = <<a.start, EndDate(a.start, a.weeks)>>]
       IN  IF r.raised # ""
           THEN /\ last' = run({"overlap_error", "could_not_submit_leave"})
                /\ UNCHANGED <<reqRows, appends>>
           ELSE /\ reqRows' = r.rows
                /\ appends' = appends + 1
                /\ last' = run({"overlap_error", "submitted"})
    /\ pc' = [pc EXCEPT ![s] = "idle"]
    /\ pend' = [pend EXCEPT ![s] = NoPend]
    /\ UNCHANGED <<members, reqHeader, member>>

\* the names lines 466-477 bind for a detail type
BoundNames(detail_type) ==
    CASE detail_type = "Phone number" -> {"value", "person_name"}
      [] detail_type = "Address" -> {"value", "addr1", "addr2", "suburb", "postcode"}
      [] detail_type = "Email" -> {"value", "person_name"}

\* the names the branch of lines 483-504 for a detail type reads
ReadNames(detail_type) ==
    CASE detail_type = "Phone number" -> {"phone", "person_name"}
      [] detail_type = "Email" -> {"person_name", "new_email"}
      [] detail_type = "Address" -> {"person_name", "addr1", "addr2", "suburb", "postcode"}

\* line 481 sits inside the "Email" branch of lines 467-477: only there is the
\* "Submit update" button on the page
SubmitButtonShown(detail_type) == detail_type = "Email"

\* lines 455-507: the member fills the form for detail_type and presses "Submit
\* update" where the page has it.  value is the phone or email typed, addr the
\* four address lines.
UpdateContact(s, detail_type, person_name, value, addr, gw) ==
    /\ pc[s] = "idle"
    /\ LoggedIn(s)
    /\ appends < MaxAppends
    /\ LET m == ActiveStudent(members, member[s], member[s]["MemberName"])
           run(msgs) == [Run(s, "contact", msgs) EXCEPT !.detail = detail_type,
                              !.name = person_name, !.value = value, !.addr = addr, !.gw = gw]
           digits == Digits(value)
           call(phone, email, ad) ==
               LET r == append_contact_update(gw, reqHeader, reqRows, m, <<detail_type>>,
                                              person_name, phone, email, ad)
               IN  IF r.raised # ""
                   THEN /\ last' = run({"could_not_submit_update"})
                        /\ UNCHANGED <<reqRows, appends>>
                   ELSE /\ reqRows' = r.rows
                        /\ appends' = appends + 1
                        /\ last' = run({"update_submitted"})
       IN  /\ member' = [member EXCEPT ![s] = m]
           /\ IF ~SubmitButtonShown(detail_type)
              THEN /\ last' = run({})
                   /\ UNCHANGED <<reqRows, appends>>
              ELSE IF ~(ReadNames(detail_type) \subseteq BoundNames(detail_type))
              THEN \* NameError, caught at line 506
                   /\ last' = run({"could_not_submit_update"})
                   /\ UNCHANGED <<reqRows, appends>>
              ELSE IF detail_type = "Phone number"
              THEN IF PhoneValid(digits)
                   THEN call(FormatPhone(digits), Blank, NoAddress)
                   ELSE /\ last' = run({"invalid_phone"})
                        /\ UNCHANGED <<reqRows, appends>>
              ELSE IF detail_type = "Email"
              THEN call(Blank, value, NoAddress)
              ELSE call(Blank, Blank, addr)
    /\ UNCHANGED <<members, reqHeader, pc, pend>>

\* line 541
pending_values ==
    { <<"new">>, <<"pending">>, <<"in review">>, <<"in-progress">>, <<"submitted">> }

\* the options of the "Category" and "Show" radios, by the text they start with
Categories == { "Leave requests", "Contact updates", "All" }
Shows == { "Pending", "All" }

\* lines 509-633: a run of the "My requests" view with the two radios at
\* cat_choice and show_choice.  gw: the gateway read succeeds.
ViewRequests(s, cat_choice, show_choice, gw) ==
    /\ pc[s] = "idle"
    /\ LoggedIn(s)
    /\ LET m == ActiveStudent(members, member[s], member[s]["MemberName"])
           r_df == Snapshot(reqHeader, reqRows)
           all == 1..Len(r_df.rows)
           run(msgs, shown) == [Run(s, "requests", msgs) EXCEPT !.cat = cat_choice,
                                    !.show = show_choice, !.gw = gw, !.shown = shown]
           byEmail == { i \in all : Norm(r_df.rows[i]["MemberEmail"]) = Norm(Get(m, "Email")) }
           mine == { i \in byEmail : Norm(r_df.rows[i]["MemberID"]) = Norm(Get(m, "MemberID")) }
           is_leave == { i \in mine : Norm(r_df.rows[i]["RequestType"]) = <<"leave request">> }
           is_contact == { i \in mine : Norm(r_df.rows[i]["RequestType"]) = <<"contact update">> }
           byCat == IF cat_choice = "Leave requests" THEN is_leave
                    ELSE IF cat_choice = "Contact updates" THEN is_contact
                    ELSE mine
           view == IF show_choice = "Pending"
                   THEN { i \in byCat : Norm(r_df.rows[i]["Status"]) \in pending_values }
                   ELSE byCat
       IN  /\ member' = [member EXCEPT ![s] = m]
           /\ IF ~gw THEN last' = run({"could_not_load"}, {})
              ELSE IF r_df.rows = <<>> THEN last' = run({"no_requests"}, {})
              ELSE IF "MemberEmail" \notin r_df.cols
                   THEN \* r_df.get("MemberEmail", "") is a str: AttributeError
                        last' = run({"could_not_load"}, {})
              ELSE IF "MemberID" \notin r_df.cols
                   THEN \* lines 528-620 sit inside the test of line 525: nothing is shown
                        last' = run({}, {})
              ELSE IF mine = {} THEN last' = run({"no_requests"}, {})
              ELSE IF "RequestType" \notin r_df.cols \/ "Status" \notin r_df.cols
                   THEN last' = run({"could_not_load"}, {})
              ELSE IF view = {} THEN last' = run({"no_matching"}, {})
              ELSE last' = run({}, view)
    /\ UNCHANGED <<members, reqHeader, reqRows, pc, pend, appends>>

\* the radio choices of the "My requests" view, each with whether the gateway
\* answers during the run
ViewInputs == (Categories \X Shows \X {TRUE}) \cup ({"All"} \X {"All"} \X {FALSE})

\* the forms the members fill in, each with whether the gateway answers during
\* the run: every phone with a person name, one phone without, an email and an
\* address with and without a person name
ContactInputs ==
    ({"Phone number"} \X {<<"Bob">>} \X PhoneInputs \X {NoAddress} \X {TRUE})
    \cup ({"Phone number"} \X {Blank} \X {<<"0", "4", "0", "0", "1", "2", "3", "4", "5", "6">>}
             \X {NoAddress} \X {TRUE})
    \cup ({"Email"} \X PersonNames \X NewEmails \X {NoAddress} \X BOOLEAN)
    \cup ({"Address"} \X PersonNames \X {Blank} \X Addresses \X {TRUE})

\* the leave forms the members submit, each with whether the gateway answers
\* during the run: every start date for one week, every week count from the
\* first Monday, every reason and description on one date, and one submit
\* during which the gateway fails
LeaveInputs ==
    ((0..MaxStartSel) \X {1} \X {<<"Personal">>} \X {<<"trip">>} \X {TRUE})
    \cup ({0} \X (1..MaxWeeks) \X {<<"Personal">>} \X {<<"trip">>} \X {TRUE})
    \cup ({0} \X {1} \X Reasons \X Descriptions \X {TRUE})
    \cup ({0} \X {1} \X {<<"Personal">>} \X {<<"trip">>} \X {FALSE})

Init ==
    /\ members \in { MembersTable(c) : c \in MemberColChoices }
    /\ reqHeader \in HeaderChoices
    /\ reqRows \in { SeedRows(reqHeader, 1..k) : k \in 0..Len(SeedMaps) }
    /\ member = [s \in Sessions |-> None]
    /\ pc = [s \in Sessions |-> "idle"]
    /\ pend = [s \in Sessions |-> NoPend]
    /\ last = Run("s1", "start", {})
    /\ appends = 0

Next ==
    \E s \in Sessions :
        \/ Logout(s)
        \/ \E email \in LoginEmails, pin \in LoginPins,
              chosen \in {Blank} \cup NamesOf(members.rows) : Login(s, email, pin, chosen)
        \/ \E chosen \in NamesOf(members.rows) : SelectStudent(s, chosen)
        \/ \E f \in LeaveInputs : SubmitLeave(s, f[1], f[2], f[3], f[4], f[5])
        \/ \E gw \in BOOLEAN : AppendLeave(s, gw)
        \/ \E c \in ContactInputs : UpdateContact(s, c[1], c[2], c[3], c[4], c[5])
        \/ \E v \in ViewInputs : ViewRequests(s, v[1], v[2], v[3])

Spec == Init /\ [][Next]_vars

----------------------------------------------------------------------------
(* The Request Composer called directly: a caller that holds the session's
   member calls append_leave_request or append_contact_update with arguments of
   the kinds the views pass *)

\* the phone numbers, normalised, a caller passes as phone=
FormattedPhones == { FormatPhone(Digits(p)) : p \in { q \in PhoneInputs : PhoneValid(Digits(q)) } }

ComposerContactArgs ==
    ({"Phone number"} \X {<<"Bob">>} \X FormattedPhones \X {NoAddress} \X BOOLEAN)
    \cup ({"Email"} \X {<<"Bob">>} \X NewEmails \X {NoAddress} \X {TRUE})
    \cup ({"Address"} \X {Blank} \X {Blank} \X Addresses \X {TRUE})

\* the arguments the leave view passes: a start date snapped to its Monday, a
\* week count, a reason and a description that passed the field checks
ComposerLeaveArgs ==
    ({ next_monday(d) : d \in 0..MaxStartSel } \X (1..MaxWeeks) \X {<<"Personal">>}
        \X {<<"trip">>} \X {TRUE})
    \cup ({0} \X {1} \X (Reasons \ {Blank}) \X {<<"trip">>} \X BOOLEAN)

\* append_leave_request(member, start_monday, weeks, reason, description)
CallAppendLeaveRequest(s, start_monday, weeks, reason, description, gw) ==
    /\ pc[s] = "idle"
    /\ LoggedIn(s)
    /\ appends < MaxAppends
    /\ LET r == append_leave_request(gw, reqHeader, reqRows, member[s], start_monday,
                                     weeks, reason, description)
       IN  /\ reqRows' = r.rows
           /\ appends' = IF r.raised = "" THEN appends + 1 ELSE appends
           /\ last' = [Run(s, "call_leave", {r.raised}) EXCEPT !.start = start_monday,
                           !.weeks = weeks, !.reason = reason, !.desc = description, !.gw = gw]
    /\ UNCHANGED <<members, reqHeader, member, pc, pend>>

\* append_contact_update(member, update_type, update_name, phone=, email=, addr1=, ...)
CallAppendContactUpdate(s, update_type, update_name, value, addr, gw) ==
    /\ pc[s] = "idle"
    /\ LoggedIn(s)
    /\ appends < MaxAppends
    /\ LET phone == IF update_type = "Phone number" THEN value ELSE Blank
           email == IF update_type = "Email" THEN value ELSE Blank
           r == append_contact_update(gw, reqHeader, reqRows, member[s], <<update_type>>,
                                      update_name, phone, email, addr)
       IN  /\ reqRows' = r.rows
           /\ appends' = IF r.raised = "" THEN appends + 1 ELSE appends
           /\ last' = [Run(s, "call_contact", {r.raised}) EXCEPT !.detail = update_type,
                           !.name = update_name, !.value = value, !.addr = addr, !.gw = gw]
    /\ UNCHANGED <<members, reqHeader, member, pc, pend>>

NextComposer ==
    \E s \in Sessions :
        \/ Logout(s)
        \/ \E email \in LoginEmails, pin \in LoginPins,
              chosen \in {Blank} \cup NamesOf(members.rows) : Login(s, email, pin, chosen)
        \/ \E f \in ComposerLeaveArgs :
              CallAppendLeaveRequest(s, f[1], f[2], f[3], f[4], f[5])
        \/ \E c \in ComposerContactArgs :
              CallAppendContactUpdate(s, c[1], c[2], c[3], c[4], c[5])

SpecComposer == Init /\ [][NextComposer]_vars

----------------------------------------------------------------------------
(* Two browser sessions of one guardian account submit leave at the same time.
   A script run is not atomic with respect to the sheet: another session's run
   may come between a run's read of Requests (line 406) and its call of
   append_leave_request (line 445). *)

RaceSessions == {"s1", "s2"}

\* the leave forms the two sessions submit
RaceForms == {0, MaxStartSel} \X (1..MaxWeeks)

InitRace ==
    /\ members = MembersTable(AllMemberCols)
    /\ reqHeader = BaseCols \o LeaveCols \o structured_cols
    /\ reqRows \in { SeedRows(reqHeader, 1..k) : k \in 0..1 }
    /\ member = [s \in RaceSessions |-> None]
    /\ pc = [s \in RaceSessions |-> "idle"]
    /\ pend = [s \in RaceSessions |-> NoPend]
    /\ last = Run("s1", "start", {})
    /\ appends = 0

NextRace ==
    \E s \in RaceSessions :
        \/ Logout(s)
        \/ \E chosen \in { <<"Ann">>, <<"Bea">> } : Login(s, <<"a@x">>, <<"1234">>, chosen)
        \/ \E f \in RaceForms : SubmitLeave(s, f[1], f[2], <<"Personal">>, <<"trip">>, TRUE)
        \/ \E gw \in BOOLEAN : AppendLeave(s, gw)

SpecRace == InitRace /\ [][NextRace]_vars

----------------------------------------------------------------------------
(* pct(a, b), lines 251-256, called directly.  A float is the fraction
   num/den with den > 0; the rounding of the division and of the product
   (relative error 2^-52) is not modelled. *)

Rat(n, d) == [num |-> n, den |-> d]

\* x < y
RatLess(x, y) == x.num * y.den < y.num * x.den

\* min(x, y) and max(x, y) of Python: the first argument unless the second is
\* smaller (larger)
RatMin(x, y) == IF RatLess(y, x) THEN y ELSE x
RatMax(x, y) == IF RatLess(x, y) THEN y ELSE x

\* an argument of pct: <<n>> for the number n, <<>> for a value that float()
\* rejects
NotANumber == <<>>

\* what is passed to pct: whole numbers, and a value that is no number
PctArgs == { <<n>> : n \in -MaxPctArg..MaxPctArg } \cup {NotANumber}

\* pct without the clamp
pct_unclamped(a, b) ==
    IF a = NotANumber \/ b = NotANumber THEN Rat(0, 1)
    ELSE IF b[1] <= 0 THEN Rat(0, 1)
    ELSE Rat(a[1] * 100, b[1])

\* pct(a, b)
pct(a, b) ==
    IF a = NotANumber \/ b = NotANumber THEN Rat(0, 1)           \* float() raises
    ELSE IF b[1] <= 0 THEN Rat(0, 1)
    ELSE RatMax(Rat(0, 1), RatMin(Rat(100, 1), Rat(a[1] * 100, b[1])))

CallPct(a, b) ==
    /\ last' = [op |-> "pct", a |-> a, b |-> b, result |-> pct(a, b)]
    /\ UNCHANGED <<members, reqHeader, reqRows, member, pc, pend, appends>>

InitPct ==
    /\ members = MembersTable(AllMemberCols)
    /\ reqHeader = BaseCols
    /\ reqRows = <<>>
    /\ member = [s \in Sessions |-> None]
    /\ pc = [s \in Sessions |-> "idle"]
    /\ pend = [s \in Sessions |-> NoPend]
    /\ last = Run("s1", "start", {})
    /\ appends = 0

NextPct == \E a \in PctArgs, b \in PctArgs : CallPct(a, b)

SpecPct == InitPct /\ [][NextPct]_vars

----------------------------------------------------------------------------
(* Properties *)

\* the leave period a leave run asks for
NewStart(r) == next_monday(r.start)
NewEnd(r) == EndDate(next_monday(r.start), r.weeks)

\* a leave run whose fields pass the required-field checks
ValidLeaveRun(r) == r.weeks >= 1 /\ r.reason # Blank /\ Strip(r.desc) # Blank

\* the cell of a row under the column named c ("" where the row is shorter)
CellOf(header, row, c) ==
    LET k == CHOOSE j \in 1..Len(header) : header[j] = c
    IN  IF k <= Len(row) THEN row[k] ELSE Blank

\* the sheet holds a leave request of member m (same email, and same MemberID
\* when the sheet has that column) whose parseable FromDate..ToDate meets
\* [start_new, end_new]
HasOverlappingLeave(header, rows, m, start_new, end_new) ==
    /\ {"MemberEmail", "RequestType", "FromDate", "ToDate"} \subseteq ColSet(header)
    /\ \E i \in 1..Len(rows) :
        /\ Norm(CellOf(header, rows[i], "MemberEmail")) = Norm(Get(m, "Email"))
        /\ "MemberID" \in ColSet(header) =>
               Norm(CellOf(header, rows[i], "MemberID")) = Norm(Get(m, "MemberID"))
        /\ CellOf(header, rows[i], "RequestType") = <<"Leave request">>
        /\ LET from == ParseDayFirst(CellOf(header, rows[i], "FromDate"))
               to   == ParseDayFirst(CellOf(header, rows[i], "ToDate"))
           IN  /\ from # NaT
               /\ to # NaT
               /\ from <= end_new
               /\ to >= start_new

\* the most recent run is a leave submit that got as far as the overlap check
CheckedLeaveRun == last.op = "leave" /\ ValidLeaveRun(last) /\ last.gw

LastRunOverlaps ==
    HasOverlappingLeave(reqHeader, reqRows, member[last.sess], NewStart(last), NewEnd(last))

\* C1: a leave submit whose period overlaps one of the member's existing leave
\* requests reports the conflict, and a run that reported a conflict appends no
\* row to Requests.
C1_OverlapBlocksAppend ==
    [][ /\ ("overlap_error" \in last'.msgs => reqRows' = reqRows)
        /\ (CheckedLeaveRun' /\ LastRunOverlaps' => "overlap_error" \in last'.msgs) ]_vars

\* C1 witness: a submit that found an overlap has run to its end
C1_Witness ==
    /\ last.op = "leave_append"
    /\ "overlap_error" \in last.msgs
    /\ LastRunOverlaps

\* C2: a valid leave submit that overlaps none of the member's leave requests,
\* with the gateway working, appends exactly one row, a "Leave request" with
\* Status "New".
C2_ValidSubmitAppendsOneRow ==
    [][ (CheckedLeaveRun' /\ ~LastRunOverlaps')
        => /\ Len(reqRows') = Len(reqRows) + 1
           /\ SubSeq(reqRows', 1, Len(reqRows)) = reqRows
           /\ LET r == RecordOf(reqHeader, reqRows'[Len(reqRows')])
              IN  /\ Get(r, "RequestType") = <<"Leave request">>
                  /\ Get(r, "Status") = <<"New">> ]_vars

\* C2 witness of the run the claim is about: a valid submit that overlaps nothing
C2_Reached == CheckedLeaveRun /\ ~LastRunOverlaps

\* the rows of Members that the email and PIN of the last login name
EnteredRows ==
    { i \in 1..Len(members.rows) :
        /\ {"Email", "PIN"} \subseteq members.cols
        /\ Lower(Strip(members.rows[i]["Email"])) = Lower(Strip(last.email))
        /\ members.rows[i]["PIN"] = last.pin }

LoginErrors == {"no_match", "missing_columns", "error_reading"}

\* C3: after a login run the session member is a Members row whose trimmed,
\* lower-cased Email and whose PIN equal the ones entered, and only when Members
\* has the eight required columns; a single matching row becomes the member;
\* with no matching row or a required column missing the session stays logged
\* out and an error is shown.
C3_LoginSetsMatchingMember ==
    last.op = "login" =>
        LET m == member[last.sess]
            ok == RequiredCols \subseteq members.cols
        IN  /\ m # None => /\ ok
                           /\ \E i \in EnteredRows : m = members.rows[i]
            /\ (ok /\ Cardinality(EnteredRows) = 1)
                   => \A i \in EnteredRows : m = members.rows[i]
            /\ (ok /\ EnteredRows # {}) => m # None
            /\ (~ok \/ EnteredRows = {}) => /\ m = None
                                            /\ last.msgs \cap LoginErrors # {}

\* C3 witness: a login with the email in another case and padded, matching two
\* rows, made the student picked by name the member
C3_Witness ==
    /\ last.op = "login"
    /\ last.email = <<" ", "A@X">>
    /\ Cardinality(EnteredRows) = 2
    /\ member[last.sess] # None
    /\ member[last.sess]["MemberName"] = <<"Bea">>

\* C4: for a row with a non-empty PIN_Hash, login accepts the PIN entered if and
\* only if its salted SHA-256 digest equals the stored PIN_Hash.
C4_HashedPinDecidesLogin ==
    (last.op = "login" /\ RequiredCols \cup {"PIN_Hash"} \subseteq members.cols) =>
        LET hashed == { i \in 1..Len(members.rows) :
                          /\ Lower(Strip(members.rows[i]["Email"])) = Lower(Strip(last.email))
                          /\ members.rows[i]["PIN_Hash"] # Blank }
            good == { i \in hashed : pin_hash(last.pin) = members.rows[i]["PIN_Hash"] }
            m == member[last.sess]
        IN  /\ (\E i \in hashed : m = members.rows[i]) => (\E i \in good : m = members.rows[i])
            /\ good # {} => m # None

\* C5: in a leave submit that reaches the overlap check, an overlap is found if
\* and only if the sheet holds a leave request of the current member (same
\* email, and same MemberID when the column exists) with parseable dates that
\* meet the requested period.
C5_OverlapFoundIff ==
    CheckedLeaveRun => ("overlap_error" \in last.msgs <=> LastRunOverlaps)

\* the row the last composer call appended, by header name
LastAppended == RecordOf(reqHeader, reqRows[Len(reqRows)])

ComposerAppended == last.op \in {"call_leave", "call_contact"} /\ last.msgs = {""}

\* C6: an appended row has the Message blank and the structured fields filled
\* when the header has the structured columns of its request type, and carries
\* the data in Message when the header lacks some or all of them.
C6_MessageXorStructured ==
    ComposerAppended =>
        LET want == IF last.op = "call_contact"
                    THEN { structured_cols[i] : i \in 1..Len(structured_cols) }
                    ELSE { LeaveCols[i] : i \in 1..Len(LeaveCols) }
        IN  IF want \subseteq ColSet(reqHeader)
            THEN /\ Get(LastAppended, "Message") = Blank
                 /\ \E c \in want : LastAppended[c] # Blank
            ELSE Get(LastAppended, "Message") # Blank

\* the value a contact update means for the column named c
IntendedContact(c) ==
    LET m == member[last.sess]
    IN  CASE c = "Timestamp" -> Now
          [] c = "MemberEmail" -> m["Email"]
          [] c = "MemberID" -> m["MemberID"]
          [] c = "RequestType" -> <<"Contact update">>
          [] c = "Status" -> <<"New">>
          [] c = "UpdateType" -> <<last.detail>>
          [] c = "UpdateName" -> last.name
          [] c = "UpdatePhone" -> IF last.detail = "Phone number" THEN last.value ELSE Blank
          [] c = "UpdateEmail" -> IF last.detail = "Email" THEN last.value ELSE Blank
          [] c = "Addr1" -> last.addr[1]
          [] c = "Addr2" -> last.addr[2]
          [] c = "Suburb" -> last.addr[3]
          [] c = "PostCode" -> last.addr[4]
          [] OTHER -> Blank

ValidContactRun(r) ==
    /\ r.op = "contact"
    /\ r.gw
    /\ r.name # Blank
    /\ r.detail = "Phone number" => PhoneValid(Digits(r.value))
    /\ r.detail = "Email" => r.value # Blank
    /\ r.detail = "Address" => r.addr # NoAddress

\* C8: a contact submit of any of the three types with a person name and valid
\* details appends exactly one row, a "Contact update" with Status "New"; a
\* submit without a person name appends none.
C8_ContactSubmitAppendsOneRow ==
    [][ /\ ValidContactRun(last')
            => /\ Len(reqRows') = Len(reqRows) + 1
               /\ SubSeq(reqRows', 1, Len(reqRows)) = reqRows
               /\ LET r == RecordOf(reqHeader, reqRows'[Len(reqRows')])
                  IN  /\ Get(r, "RequestType") = <<"Contact update">>
                      /\ Get(r, "Status") = <<"New">>
        /\ (last'.op = "contact" /\ last'.name = Blank) => reqRows' = reqRows ]_vars

LeaveFieldErrors == {"need_weeks", "need_reason", "need_description"}

\* C9: a leave submit with no reason, a blank description or fewer than one
\* week, and a phone update whose digits are not ten starting with "0", each
\* show an error and leave Requests as it was.
C9_ValidationErrorsBeforeWrite ==
    [][ /\ (last'.op = "leave" /\ ~ValidLeaveRun(last'))
            => /\ last'.msgs \cap LeaveFieldErrors # {}
               /\ reqRows' = reqRows
        /\ (last'.op = "contact" /\ last'.detail = "Phone number"
                /\ ~PhoneValid(Digits(last'.value)))
            => /\ "invalid_phone" \in last'.msgs
               /\ reqRows' = reqRows ]_vars

\* part occurs in cell as a run of consecutive elements
Contains(cell, part) ==
    \E k \in 0..(Len(cell) - Len(part)) : SubSeq(cell, k + 1, k + Len(part)) = part

\* C10: a phone update is accepted if and only if, non-digits removed, ten
\* digits starting with "0" remain, and then the row stored holds them grouped
\* 4-3-3 with single spaces; nine or eleven digits are rejected.
C10_PhoneNormalization ==
    (last.op = "contact" /\ last.detail = "Phone number" /\ last.name # Blank /\ last.gw) =>
        LET digits == SelectSeq(last.value, IsDigit)
            valid == Len(digits) = 10 /\ digits[1] = "0"
            stored == SubSeq(digits, 1, 4) \o <<" ">> \o SubSeq(digits, 5, 7)
                      \o <<" ">> \o SubSeq(digits, 8, 10)
        IN  /\ "update_submitted" \in last.msgs <=> valid
            /\ valid => /\ reqRows # <<>>
                        /\ \E i \in 1..Len(reqRows[Len(reqRows)]) :
                               Contains(reqRows[Len(reqRows)][i], stored)
            /\ Len(digits) \in {9, 11} => "update_submitted" \notin last.msgs

\* C11: the start date of the requested period is the first Monday on or after
\* the date selected: a Monday stays, any other date moves forward to the
\* Monday that follows it.
C11_SnapsToFollowingMonday ==
    last.op = "leave" =>
        LET d == last.start
            r == last.period[1]
        IN  /\ r % 7 = 0
            /\ d <= r
            /\ r < d + 7
            /\ d % 7 = 0 => r = d

\* C11 witness: a Thursday was selected and the period starts the Monday after
C11_Witness ==
    /\ last.op = "leave"
    /\ last.start = 3
    /\ last.period[1] = 7

\* C11 as stated: a date that is not a Monday maps to the Monday of its own
\* week, and a Monday maps to itself.
C11_SnapsToMondayOfItsWeek ==
    last.op = "leave" =>
        LET d == last.start
            r == last.period[1]
        IN  /\ r % 7 = 0
            /\ r <= d
            /\ d < r + 7

\* the caption of a leave run shows N whole Monday-to-Sunday weeks from the
\* first Monday on or after the date selected
PeriodIsWholeWeeks ==
    (last.op = "leave" /\ last.weeks >= 1) =>
        LET from == last.period[1]
            to   == last.period[2]
        IN  /\ from % 7 = 0
            /\ last.start <= from
            /\ from < last.start + 7
            /\ to = from + 7 * last.weeks - 1
            /\ to % 7 = 6

\* C12: the requested period starts on the first Monday on or after the date
\* selected and ends 7N - 1 days later, on a Sunday; the row that
\* append_leave_request writes carries these two dates as FromDate and ToDate.
C12_PeriodWrittenAsRequested ==
    /\ PeriodIsWholeWeeks
    /\ (last.op = "leave_append" /\ last.gw) =>
           /\ "submitted" \in last.msgs
           /\ reqRows # <<>>
           /\ {"FromDate", "ToDate"} \subseteq ColSet(reqHeader) =>
                  /\ LastAppended["FromDate"] = DateStr(last.period[1])
                  /\ LastAppended["ToDate"] = DateStr(last.period[2])

\* the rows of Requests that belong to the member of the last run and pass the
\* two filters of the "My requests" view
OwnRowsFiltered ==
    { i \in 1..Len(reqRows) :
        LET r == RecordOf(reqHeader, reqRows[i])
            m == member[last.sess]
        IN  /\ Lower(Strip(Get(r, "MemberEmail"))) = Lower(Strip(m["Email"]))
            /\ "MemberID" \in ColSet(reqHeader) =>
                   Lower(Strip(r["MemberID"])) = Lower(Strip(m["MemberID"]))
            /\ last.show = "Pending" => Lower(Strip(Get(r, "Status"))) \in pending_values
            /\ last.cat = "Leave requests" =>
                   Lower(Strip(Get(r, "RequestType"))) = <<"leave request">>
            /\ last.cat = "Contact updates" =>
                   Lower(Strip(Get(r, "RequestType"))) = <<"contact update">> }

\* C13: the "My requests" view shows exactly the rows whose MemberEmail is the
\* member's (trimmed, lower-cased) and, if the sheet has a MemberID column,
\* whose MemberID is the member's; without that column the email-matched rows;
\* with "Pending" only rows with a pending Status, with a category only rows of
\* that RequestType.
C13_ViewerShowsOwnRows ==
    (last.op = "requests" /\ last.gw) => last.shown = OwnRowsFiltered

\* the same on sheets that have a MemberID column
ViewerShowsOwnRowsById ==
    (last.op = "requests" /\ last.gw /\ "MemberID" \in ColSet(reqHeader))
        => last.shown = OwnRowsFiltered

\* C14: pct(taken, allowance) is 0 when allowance <= 0; otherwise it is
\* taken / allowance * 100 where that lies in [0, 100], 100 where it is above
\* and 0 where it is below; pct(12, 10) = 100 and pct(-5, 10) = 0.
C14_PctClamped ==
    (last.op = "pct" /\ last.a # NotANumber /\ last.b # NotANumber) =>
        LET a == last.a[1]
            b == last.b[1]
            r == last.result
        IN  /\ r.den > 0
            /\ b <= 0 => r.num = 0
            /\ b > 0 => /\ 0 <= r.num
                        /\ r.num <= 100 * r.den
                        /\ (0 <= a /\ a <= b) => r.num * b = 100 * a * r.den
                        /\ a > b => r.num = 100 * r.den
                        /\ a < 0 => r.num = 0
            /\ (a = 12 /\ b = 10) => r.num = 100 * r.den
            /\ (a = -5 /\ b = 10) => r.num = 0

\* C14 witness: pct(12, 10) was computed and is 100
C14_Witness ==
    /\ last.op = "pct"
    /\ last.a = <<12>>
    /\ last.b = <<10>>
    /\ last.result.num = 100 * last.result.den

\* C15: no step changes the Members sheet; every step leaves the rows that
\* Requests holds as they are and in their order, and adds at most one row,
\* after them.
C15_MembersFixedRequestsAppendOnly ==
    [][ /\ members' = members
        /\ reqHeader' = reqHeader
        /\ Len(reqRows') \in {Len(reqRows), Len(reqRows) + 1}
        /\ SubSeq(reqRows', 1, Len(reqRows)) = reqRows ]_vars

\* C15 witness: a row was appended below the rows the sheet held before
C15_Witness ==
    /\ appends = 1
    /\ Len(reqRows) = Len(SeedMaps) + 1
    /\ SubSeq(reqRows, 1, Len(SeedMaps)) = SeedRows(reqHeader, 1..Len(SeedMaps))

\* both sessions have read Requests and neither has made its append call
BothReadBeforeAppend == \A s \in RaceSessions : pc[s] = "append"

\* the step ends a valid leave submit of session s, the gateway working
EndsLeaveSubmit(s) ==
    /\ last'.sess = s
    /\ last'.op \in {"leave", "leave_append"}
    /\ ValidLeaveRun(last')
    /\ last'.gw
    /\ pc'[s] = "idle"

\* C16: with two sessions submitting leave at the same time, each checking
\* against the snapshot it read, every submit that ends adds its own row to
\* Requests, so that both rows are appended, also when they overlap.
C16_ConcurrentSubmitsBothAppend ==
    [][ \A s \in RaceSessions :
            EndsLeaveSubmit(s) =>
                /\ Len(reqRows') = Len(reqRows) + 1
                /\ LET r == RecordOf(reqHeader, reqRows'[Len(reqRows')])
                   IN  /\ r["RequestType"] = <<"Leave request">>
                       /\ ParseDayFirst(r["FromDate"]) = last'.period[1]
                       /\ ParseDayFirst(r["ToDate"]) = last'.period[2] ]_vars

\* no leave row is written, whatever the two sessions do
NoLeaveRowWritten == appends = 0 /\ Len(reqRows) <= 1

====
